---- MODULE Spec2Model ----
(***************************************************************************)
(* Model of luminosity-calibration/luminosity_inference_distance_prior.py  *)
(* (Astroya/astrometry-inference-tutorials).                               *)
(*                                                                         *)
(* The script is a sequential pipeline: parse the command line, build a    *)
(* simulated parallax survey, hand it to the Stan sampler with one of two  *)
(* model files, print the fit, make a naive estimate of the mean absolute  *)
(* magnitude and optionally plot.  Every step is one action; an exception  *)
(* raised by a step ends the run (there is no try/except in the file).     *)
(*                                                                         *)
(* Numbers.  Parallaxes and their errors are binary floating point         *)
(* numbers; the model keeps the IEEE-754 rules (round to nearest, ties to  *)
(* even, inf and nan) and shortens the significand from 53 to Precision    *)
(* bits.  Magnitudes and distances are only added, subtracted and passed   *)
(* through; they are integers extended with +inf, -inf and nan.            *)
(***************************************************************************)
EXTENDS Integers, Sequences, FiniteSets, TLC

VARIABLES pc, args, survey, npRandomState, initialValuesList, loaded,
          samplerCalls, events, plots, stdout, naive, failedAt

vars == <<pc, args, survey, npRandomState, initialValuesList, loaded,
          samplerCalls, events, plots, stdout, naive, failedAt>>

(***************************************************************************)
(* Bounds of the model.                                                    *)
(***************************************************************************)
Precision == 3
MaxStars == 3
MaxLen == 3
RngPeriod == 4

(***************************************************************************)
(* Floating point numbers: s * m * 2^e with 2^(Precision-1) <= m <         *)
(* 2^Precision, or zero, or an infinity, or nan.                           *)
(***************************************************************************)
RECURSIVE Pow2(_)
Pow2(n) == IF n <= 0 THEN 1 ELSE 2 * Pow2(n - 1)

FZero == [k |-> "fin", s |-> 1, m |-> 0, e |-> 0]
FNaN == [k |-> "nan", s |-> 1, m |-> 0, e |-> 0]
FInf(sgn) == [k |-> "inf", s |-> sgn, m |-> 0, e |-> 0]
FNum(sgn, mant, ex) == [k |-> "fin", s |-> sgn, m |-> mant, e |-> ex]

\* The float nearest to num/den * 2^ex (num, den > 0), ties to even.
RECURSIVE RoundRat(_, _, _)
RoundRat(num, den, ex) ==
    IF num >= Pow2(Precision) * den THEN RoundRat(num, 2 * den, ex + 1)
    ELSE IF num < Pow2(Precision - 1) * den THEN RoundRat(2 * num, den, ex - 1)
    ELSE LET q == num \div den
             r == num % den
             up == (2 * r > den) \/ (2 * r = den /\ q % 2 = 1)
             mm == IF up THEN q + 1 ELSE q
         IN IF mm = Pow2(Precision)
            THEN FNum(1, Pow2(Precision - 1), ex + 1)
            ELSE FNum(1, mm, ex)

\* a / b on numpy arrays: division by zero gives inf or nan, never raises.
fdiv(a, b) ==
    IF a.k = "nan" \/ b.k = "nan" THEN FNaN
    ELSE IF a.k = "inf" THEN (IF b.k = "inf" THEN FNaN ELSE FInf(a.s * b.s))
    ELSE IF b.k = "inf" THEN FZero
    ELSE IF b.m = 0 THEN (IF a.m = 0 THEN FNaN ELSE FInf(a.s))
    ELSE IF a.m = 0 THEN FZero
    ELSE LET r == RoundRat(a.m, b.m, a.e - b.e)
         IN FNum(a.s * b.s, r.m, r.e)

\* a <= b; any comparison with nan is false.
fle(a, b) ==
    IF a.k = "nan" \/ b.k = "nan" THEN FALSE
    ELSE IF a.k = "inf" THEN (a.s = -1 \/ (b.k = "inf" /\ b.s = 1))
    ELSE IF b.k = "inf" THEN b.s = 1
    ELSE LET lo == IF a.e < b.e THEN a.e ELSE b.e
         IN a.s * a.m * Pow2(a.e - lo) <= b.s * b.m * Pow2(b.e - lo)

fge(a, b) == fle(b, a)
flt(a, b) == fle(a, b) /\ ~fle(b, a)

\* The literal 0.175 and the literal 1 as floats.
lk_relative_error_limit == RoundRat(175, 1000, 0)
FOne == RoundRat(1, 1, 0)

\* interp1d(np.linspace(0,0.175,8), ...): the table's domain is
\* [0, 0.175]; with the default bounds_error an argument outside it raises
\* ValueError, a nan argument does not.
lk_in_domain(x) == x.k = "nan" \/ (fle(FZero, x) /\ fle(x, lk_relative_error_limit))

(***************************************************************************)
(* naive_lum_estimate: what it selects, evaluates, prints and raises.      *)
(***************************************************************************)
NoNaive == [called |-> FALSE]

naive_lum_estimate(obsplx, errplx, obsmag, errmag) ==
    LET n == Len(obsplx)
        goodplx == {i \in 1..n :
                      fge(fdiv(obsplx[i], errplx[i]), fdiv(FOne, lk_relative_error_limit))}
        lkArgs == [i \in goodplx |-> fdiv(errplx[i], obsplx[i])]
        logArgs == [i \in goodplx |-> obsplx[i]]
        base == [called |-> TRUE, goodplx |-> goodplx, n |-> n,
                 obsplx |-> obsplx, errplx |-> errplx,
                 obsmag |-> obsmag, errmag |-> errmag]
    IN IF Cardinality(goodplx) >= 3
       THEN IF \A i \in goodplx : lk_in_domain(lkArgs[i])
            THEN base @@ [raised |-> "none", logArgs |-> logArgs, lkArgs |-> lkArgs,
                          count |-> <<Cardinality(goodplx), n>>,
                          printed |-> <<"Number of 'good' parallaxes used",
                                        "### Naive estimate ###",
                                        "Mean and sigma",
                                        "### Naive estimate after LK correction ###",
                                        "Mean and sigma">>]
            ELSE base @@ [raised |-> "ValueError", logArgs |-> logArgs, lkArgs |-> lkArgs,
                          count |-> <<>>, printed |-> <<>>]
       ELSE base @@ [raised |-> "none", logArgs |-> <<>>, lkArgs |-> <<>>,
                     count |-> <<>>, printed |-> <<"Cannot make naive estimate">>]


(***************************************************************************)
(* Magnitudes and distances: integers extended with +inf, -inf and nan.    *)
(***************************************************************************)
XFin(n) == [k |-> "fin", v |-> n]
XInf(sgn) == [k |-> "inf", v |-> sgn]
XNaN == [k |-> "nan", v |-> 0]

XAdd(a, b) ==
    IF a.k = "nan" \/ b.k = "nan" THEN XNaN
    ELSE IF a.k = "inf" /\ b.k = "inf" THEN (IF a.v = b.v THEN a ELSE XNaN)
    ELSE IF a.k = "inf" THEN a
    ELSE IF b.k = "inf" THEN b
    ELSE XFin(a.v + b.v)

XNeg(a) == IF a.k = "nan" THEN XNaN ELSE [k |-> a.k, v |-> 0 - a.v]

XSub(a, b) == XAdd(a, XNeg(b))

XTimes(c, a) ==
    IF a.k = "nan" THEN XNaN
    ELSE IF a.k = "inf" THEN a
    ELSE XFin(c * a.v)

XFinite(a) == a.k = "fin"

\* np.log10 of a distance that is a power of ten; log10(0) = -inf and
\* log10 of a negative number = nan (numpy warns, it does not raise).
RECURSIVE Log10(_)
Log10(d) ==
    IF d < 0 THEN XNaN
    ELSE IF d = 0 THEN XInf(-1)
    ELSE IF d < 10 THEN XFin(0)
    ELSE XAdd(XFin(1), Log10(d \div 10))

(***************************************************************************)
(* parseCommandLineArguments: the options the model draws from.            *)
(***************************************************************************)
None == <<>>
Some(x) == <<x>>

defaultStanIter == 10000
defaultStanThin == 5
defaultMeanAbsMag == 9
numChains == 4

DistMinChoices == {0, 1}
DistMaxChoices == {0, 10, 100}
MagLimChoices == {XFin(12), XInf(1)}
SeedChoices == {None, Some(7)}
StanSeedChoices == {None, Some(11)}

NoArgs == [parsed |-> FALSE]

ArgsChoices ==
    [parsed : {TRUE},
     distMin : DistMinChoices, distMax : DistMaxChoices,
     nstars : {MaxStars}, muM : {defaultMeanAbsMag}, sigmaM : {<<7, 10>>},
     mlim : MagLimChoices, cat : {"hip", "tgas"},
     surveyplot : BOOLEAN, noplots : BOOLEAN, volumecomplete : BOOLEAN,
     surveyseed : SeedChoices, stanseed : StanSeedChoices,
     staniter : {defaultStanIter}, stanthin : {defaultStanThin}]

(***************************************************************************)
(* The survey object of parallaxsurveys (external to the file).            *)
(***************************************************************************)
NoSurvey == [built |-> FALSE]

udsl(cat, nstars, distMin, distMax, absMagTrue, sigmaAbsMagTrue, surveyLimit) ==
    [built |-> TRUE, cat |-> cat, numberOfStars |-> nstars,
     minDistance |-> distMin, maxDistance |-> distMax,
     meanAbsoluteMagnitude |-> absMagTrue, stddevAbsoluteMagnitude |-> sigmaAbsMagTrue,
     apparentMagnitudeLimit |-> surveyLimit, seed |-> None, generated |-> FALSE,
     numberOfStarsInSurvey |-> 0,
     observedParallaxes |-> <<>>, parallaxErrors |-> <<>>,
     observedMagnitudes |-> <<>>, magnitudeErrors |-> <<>>]

FromInt(n) == RoundRat(n, 1, 0)

\* Stars a generated survey may hold: parallax, its error, magnitude, its error.
Star(plx, err) == [plx |-> plx, err |-> err, mag |-> 8, magerr |-> 0]
SurveyStars == {Star(FromInt(28), FromInt(4)), Star(FromInt(24), FromInt(5))}

RECURSIVE SeqsUpTo(_, _)
SeqsUpTo(S, n) ==
    IF n = 0 THEN {<<>>}
    ELSE LET shorter == SeqsUpTo(S, n - 1)
         IN shorter \cup {Append(q, x) : q \in {r \in shorter : Len(r) = n - 1}, x \in S}

WithObservations(sv, stars) ==
    [sv EXCEPT !.generated = TRUE,
               !.numberOfStarsInSurvey = Len(stars),
               !.observedParallaxes = [i \in 1..Len(stars) |-> stars[i].plx],
               !.parallaxErrors = [i \in 1..Len(stars) |-> stars[i].err],
               !.observedMagnitudes = [i \in 1..Len(stars) |-> stars[i].mag],
               !.magnitudeErrors = [i \in 1..Len(stars) |-> stars[i].magerr]]


(***************************************************************************)
(* np.random: the process-wide generator.  A draw is a function of the     *)
(* generator's state, which the file itself never seeds.                   *)
(***************************************************************************)
RngStates == 0..(RngPeriod - 1)

\* np.random.uniform(low, high, size) from generator state s, low and high finite.
uniform(low, high, size, s) ==
    [i \in 1..size |-> XFin(low.v + (((s + i - 1) % RngPeriod) % (high.v - low.v)))]

NaNVector(size) == [i \in 1..size |-> XNaN]

(***************************************************************************)
(* run_luminosity_inference: the pieces of the sampler call.               *)
(***************************************************************************)
\* ModelFile with the two branches exchanged.
ModelFileSwapped(volumecomplete) ==
    IF volumecomplete
    THEN "luminosity_inference_distance_prior.stan"
    ELSE "luminosity_inference_volume_complete_distance_prior.stan"

ModelFile(volumecomplete) ==
    IF volumecomplete
    THEN "luminosity_inference_volume_complete_distance_prior.stan"
    ELSE "luminosity_inference_distance_prior.stan"

ModelName(volumecomplete) ==
    IF volumecomplete
    THEN "luminosityInferenceDistPriorVC"
    ELSE "luminosityInferenceDistPrior"

\* stan_data with surveyLimit passed in both branches.
stan_data_with_limit(volumecomplete, distMin, distMax, sv) ==
    [minDist |-> distMin, maxDist |-> distMax,
     N |-> sv.numberOfStarsInSurvey,
     obsPlx |-> sv.observedParallaxes, errObsPlx |-> sv.parallaxErrors,
     obsMag |-> sv.observedMagnitudes, errObsMag |-> sv.magnitudeErrors,
     surveyLimit |-> sv.apparentMagnitudeLimit]

stan_data(volumecomplete, distMin, distMax, sv) ==
    LET common == [minDist |-> distMin, maxDist |-> distMax,
                   N |-> sv.numberOfStarsInSurvey,
                   obsPlx |-> sv.observedParallaxes, errObsPlx |-> sv.parallaxErrors,
                   obsMag |-> sv.observedMagnitudes, errObsMag |-> sv.magnitudeErrors]
    IN IF volumecomplete
       THEN common
       ELSE common @@ [surveyLimit |-> sv.apparentMagnitudeLimit]

SamplingCall(a, sv, init) ==
    LET kw == [model_name |-> ModelName(a.volumecomplete),
               data |-> stan_data(a.volumecomplete, a.distMin, a.distMax, sv),
               pars |-> <<"meanAbsMag", "sigmaAbsMag">>,
               iter |-> a.staniter, chains |-> numChains,
               thin |-> a.stanthin, seed |-> a.stanseed]
    IN IF a.volumecomplete THEN kw ELSE kw @@ [init |-> init]

maxPossibleAbsMag(sv, distMax) ==
    XAdd(XSub(sv.apparentMagnitudeLimit, XTimes(5, Log10(distMax))), XFin(5))

initLow(sv, distMax) == XSub(maxPossibleAbsMag(sv, distMax), XFin(4))

\* The step that follows step p of the script.
NextStep(p, a) ==
    CASE p = "main" -> "bounds"
      [] p = "bounds" -> "construct"
      [] p = "construct" -> "setseed"
      [] p = "setseed" -> "generate"
      [] p = "generate" -> "surveyplot"
      [] p = "surveyplot" -> (IF a.volumecomplete THEN "load" ELSE "init")
      [] p = "init" -> "load"
      [] p = "load" -> "sampling"
      [] p = "sampling" -> "printfit"
      [] p = "printfit" -> "naive"
      [] p = "naive" -> "corner"
      [] p = "corner" -> "done"

(***************************************************************************)
(* Initial state: the interpreter has started, nothing has run.            *)
(***************************************************************************)
Init ==
    /\ pc = "main"
    /\ args = NoArgs
    /\ survey = NoSurvey
    /\ npRandomState \in RngStates
    /\ initialValuesList = <<>>
    /\ loaded = <<>>
    /\ samplerCalls = <<>>
    /\ events = <<>>
    /\ plots = <<>>
    /\ stdout = <<>>
    /\ naive = NoNaive
    /\ failedAt = "none"

(***************************************************************************)
(* The steps.                                                              *)
(***************************************************************************)
parseCommandLineArguments ==
    /\ pc = "main"
    /\ \E a \in ArgsChoices : args' = a
    /\ pc' = "bounds"
    /\ UNCHANGED <<survey, npRandomState, initialValuesList, loaded, samplerCalls,
                   events, plots, stdout, naive, failedAt>>

\* Lines 63-72: plxMin = 1000.0/distMax and plxMax = 1000.0/distMin on Python
\* floats; a zero divisor raises ZeroDivisionError.
ParallaxBounds ==
    /\ pc = "bounds"
    /\ IF args.distMax = 0 \/ args.distMin = 0
       THEN /\ pc' = "aborted"
            /\ failedAt' = "bounds"
       ELSE /\ pc' = NextStep(pc, args)
            /\ UNCHANGED failedAt
    /\ UNCHANGED <<args, survey, npRandomState, initialValuesList, loaded,
                   samplerCalls, events, plots, stdout, naive>>

ConstructSurvey ==
    /\ pc = "construct"
    /\ survey' = udsl(args.cat, args.nstars, args.distMin, args.distMax,
                      args.muM, args.sigmaM, args.mlim)
    /\ stdout' = Append(stdout, "### Generating parallax survey ... ###")
    /\ events' = Append(events, "construct")
    /\ pc' = NextStep(pc, args)
    /\ UNCHANGED <<args, npRandomState, initialValuesList, loaded, samplerCalls,
                   plots, naive, failedAt>>

\* Lines 79 and 80 exchanged: the observations are generated, then the seed is set.
setRandomNumberSeedLate ==
    /\ pc = "setseed"
    /\ survey' = [WithObservations(survey, <<>>) EXCEPT !.seed = args.surveyseed]
    /\ events' = events \o <<"generate", "setseed">>
    /\ pc' = "surveyplot"
    /\ UNCHANGED <<args, npRandomState, initialValuesList, loaded, samplerCalls,
                   plots, stdout, naive, failedAt>>

setRandomNumberSeed ==
    /\ pc = "setseed"
    /\ survey' = [survey EXCEPT !.seed = args.surveyseed]
    /\ events' = Append(events, "setseed")
    /\ pc' = NextStep(pc, args)
    /\ UNCHANGED <<args, npRandomState, initialValuesList, loaded, samplerCalls,
                   plots, stdout, naive, failedAt>>

\* The library draws the stars; it may use, and so move, the process-wide
\* generator.
generateObservations ==
    /\ pc = "generate"
    /\ \E stars \in SeqsUpTo(SurveyStars, survey.numberOfStars) :
           survey' = WithObservations(survey, stars)
    /\ npRandomState' \in RngStates
    /\ stdout' = Append(stdout, "### ... Done ###")
    /\ events' = Append(events, "generate")
    /\ pc' = NextStep(pc, args)
    /\ UNCHANGED <<args, initialValuesList, loaded, samplerCalls, plots, naive, failedAt>>

\* The survey plot without the --noplots override.
showSurveyStatisticsNoOverride ==
    /\ pc = "surveyplot"
    /\ IF args.surveyplot
       THEN /\ plots' = Append(plots, "showSurveyStatistics")
            /\ events' = Append(events, "surveyplot")
       ELSE UNCHANGED <<plots, events>>
    /\ pc' = NextStep(pc, args)
    /\ UNCHANGED <<args, survey, npRandomState, initialValuesList, loaded,
                   samplerCalls, stdout, naive, failedAt>>

showSurveyStatistics ==
    /\ pc = "surveyplot"
    /\ IF args.surveyplot /\ ~args.noplots
       THEN /\ plots' = Append(plots, "showSurveyStatistics")
            /\ events' = Append(events, "surveyplot")
       ELSE UNCHANGED <<plots, events>>
    /\ pc' = NextStep(pc, args)
    /\ UNCHANGED <<args, survey, npRandomState, initialValuesList, loaded,
                   samplerCalls, stdout, naive, failedAt>>

\* Lines 97-102, magnitude-limited branch only.  With a non-finite range
\* np.random.uniform raises OverflowError or returns nan, by numpy version.
InitialValues ==
    /\ pc = "init"
    /\ LET hi == maxPossibleAbsMag(survey, args.distMax)
           lo == initLow(survey, args.distMax)
           N == survey.numberOfStarsInSurvey
       IN IF XFinite(hi) /\ XFinite(lo)
          THEN /\ initialValuesList' =
                     [c \in 1..numChains |->
                        [absMag |-> uniform(lo, hi, N,
                                            (npRandomState + (c - 1) * N) % RngPeriod)]]
               /\ npRandomState' = (npRandomState + numChains * N) % RngPeriod
               /\ pc' = NextStep(pc, args)
               /\ UNCHANGED failedAt
          ELSE \/ /\ pc' = "aborted"
                  /\ failedAt' = "init"
                  /\ UNCHANGED <<initialValuesList, npRandomState>>
               \/ /\ initialValuesList' =
                        [c \in 1..numChains |-> [absMag |-> NaNVector(N)]]
                  /\ pc' = NextStep(pc, args)
                  /\ UNCHANGED <<failedAt, npRandomState>>
    /\ UNCHANGED <<args, survey, loaded, samplerCalls, events, plots, stdout, naive>>

\* load_stan_code and stan_cache.
LoadModel ==
    /\ pc = "load"
    /\ loaded' = Append(loaded, [file |-> ModelFile(args.volumecomplete),
                                 model_name |-> ModelName(args.volumecomplete)])
    /\ pc' = NextStep(pc, args)
    /\ UNCHANGED <<args, survey, npRandomState, initialValuesList, samplerCalls,
                   events, plots, stdout, naive, failedAt>>

Sampling ==
    /\ pc = "sampling"
    /\ samplerCalls' = Append(samplerCalls, SamplingCall(args, survey, initialValuesList))
    /\ events' = Append(events, "sampling")
    /\ pc' = NextStep(pc, args)
    /\ UNCHANGED <<args, survey, npRandomState, initialValuesList, loaded,
                   plots, stdout, naive, failedAt>>

PrintFit ==
    /\ pc = "printfit"
    /\ stdout' = stdout \o <<"", "fit", "">>
    /\ events' = Append(events, "printfit")
    /\ pc' = NextStep(pc, args)
    /\ UNCHANGED <<args, survey, npRandomState, initialValuesList, loaded,
                   samplerCalls, plots, naive, failedAt>>

\* Lines 116-117; a ValueError of the correction table ends the run.
NaiveEstimate ==
    /\ pc = "naive"
    /\ naive' = naive_lum_estimate(survey.observedParallaxes, survey.parallaxErrors,
                                   survey.observedMagnitudes, survey.magnitudeErrors)
    /\ stdout' = stdout \o naive'.printed
    /\ events' = Append(events, "naive")
    /\ IF naive'.raised = "none"
       THEN /\ pc' = NextStep(pc, args)
            /\ UNCHANGED failedAt
       ELSE /\ pc' = "aborted"
            /\ failedAt' = "naive"
    /\ UNCHANGED <<args, survey, npRandomState, initialValuesList, loaded,
                   samplerCalls, plots>>

\* Lines 119-127.
CornerPlot ==
    /\ pc = "corner"
    /\ IF ~args.noplots
       THEN /\ plots' = plots \o <<"figure", "corner", "show">>
            /\ events' = Append(events, "cornerplot")
       ELSE UNCHANGED <<plots, events>>
    /\ pc' = NextStep(pc, args)
    /\ UNCHANGED <<args, survey, npRandomState, initialValuesList, loaded,
                   samplerCalls, stdout, naive, failedAt>>

\* A library call of the current step raises.  Nothing in the file catches
\* it: the run ends there.
CallsLibrary(p, a) ==
    \/ p \in {"main", "construct", "setseed", "generate", "load", "sampling",
              "printfit", "corner"}
    \/ p = "surveyplot" /\ a.surveyplot /\ ~a.noplots

\* Raise with a handler around survey generation and sampling that logs and goes on.
RaiseCaught ==
    /\ CallsLibrary(pc, args)
    /\ failedAt' = pc
    /\ pc' = (IF pc \in {"generate", "sampling"} THEN NextStep(pc, args) ELSE "aborted")
    /\ UNCHANGED <<args, survey, npRandomState, initialValuesList, loaded,
                   samplerCalls, events, plots, stdout, naive>>

Raise ==
    /\ CallsLibrary(pc, args)
    /\ pc' = "aborted"
    /\ failedAt' = pc
    /\ UNCHANGED <<args, survey, npRandomState, initialValuesList, loaded,
                   samplerCalls, events, plots, stdout, naive>>

Next ==
    \/ parseCommandLineArguments
    \/ ParallaxBounds
    \/ ConstructSurvey
    \/ setRandomNumberSeed
    \/ generateObservations
    \/ showSurveyStatistics
    \/ InitialValues
    \/ LoadModel
    \/ Sampling
    \/ PrintFit
    \/ NaiveEstimate
    \/ CornerPlot
    \/ Raise

Spec == Init /\ [][Next]_vars

(***************************************************************************)
(* naive_lum_estimate on its own: any arrays of up to MaxLen stars.        *)
(***************************************************************************)
Mantissas == Pow2(Precision - 1)..(Pow2(Precision) - 1)

NaiveErrors ==
    {FNum(1, m, 0) : m \in Mantissas} \cup {FZero, FNum(-1, Pow2(Precision - 1), 0)}

NaiveParallaxes ==
    {FNum(1, m, e) : m \in Mantissas, e \in {2, 3}}
        \cup {FZero, FNum(-1, Pow2(Precision - 1), 3)}

NaiveStars == {Star(p, q) : p \in NaiveParallaxes, q \in NaiveErrors}

InitNaive ==
    /\ pc = "call"
    /\ args = NoArgs
    /\ \E stars \in SeqsUpTo(NaiveStars, MaxLen) :
           survey = WithObservations(udsl("hip", Len(stars), 1, 100, defaultMeanAbsMag,
                                          <<7, 10>>, XInf(1)), stars)
    /\ npRandomState = 0
    /\ initialValuesList = <<>>
    /\ loaded = <<>>
    /\ samplerCalls = <<>>
    /\ events = <<>>
    /\ plots = <<>>
    /\ stdout = <<>>
    /\ naive = NoNaive
    /\ failedAt = "none"

CallNaive ==
    /\ pc = "call"
    /\ naive' = naive_lum_estimate(survey.observedParallaxes, survey.parallaxErrors,
                                   survey.observedMagnitudes, survey.magnitudeErrors)
    /\ stdout' = stdout \o naive'.printed
    /\ pc' = "return"
    /\ failedAt' = (IF naive'.raised = "none" THEN "none" ELSE "naive")
    /\ UNCHANGED <<args, survey, npRandomState, initialValuesList, loaded,
                   samplerCalls, events, plots>>

NextNaive == CallNaive

SpecNaive == InitNaive /\ [][NextNaive]_vars


(***************************************************************************)
(* Properties.                                                             *)
(***************************************************************************)
StepRank(p) ==
    CASE p = "main" -> 0
      [] p = "bounds" -> 1
      [] p = "construct" -> 2
      [] p = "setseed" -> 3
      [] p = "generate" -> 4
      [] p = "surveyplot" -> 5
      [] p = "init" -> 6
      [] p = "load" -> 7
      [] p = "sampling" -> 8
      [] p = "printfit" -> 9
      [] p = "naive" -> 10
      [] p = "corner" -> 11
      [] p = "done" -> 12
      [] OTHER -> 0 - 1

EventRank(ev) ==
    CASE ev = "cornerplot" -> StepRank("corner")
      [] OTHER -> StepRank(ev)

\* The run has completed step p and has not been ended by an error.
After(p) == pc # "aborted" /\ StepRank(pc) > StepRank(p)

InSeq(x, q) == \E i \in 1..Len(q) : q[i] = x

IsPrefix(q, r) == Len(q) <= Len(r) /\ \A i \in 1..Len(q) : q[i] = r[i]

ExpectedOrder(a) ==
    <<"construct", "setseed", "generate">>
        \o (IF a.surveyplot /\ ~a.noplots THEN <<"surveyplot">> ELSE <<>>)
        \o <<"sampling", "printfit", "naive">>
        \o (IF ~a.noplots THEN <<"cornerplot">> ELSE <<>>)

NaiveOutputLines ==
    <<"Number of 'good' parallaxes used", "### Naive estimate ###", "Mean and sigma",
      "### Naive estimate after LK correction ###", "Mean and sigma">>

C2_NoPlotsOverrides ==
    /\ (args.parsed /\ args.noplots) => plots = <<>>
    /\ InSeq("showSurveyStatistics", plots) => (args.surveyplot /\ ~args.noplots)
    /\ After("surveyplot") =>
          (InSeq("showSurveyStatistics", plots) <=> (args.surveyplot /\ ~args.noplots))
    /\ pc = "done" => (InSeq("corner", plots) <=> ~args.noplots)
    /\ (pc # "done" /\ pc # "aborted") => ~InSeq("corner", plots)

C2_Witness ==
    /\ pc = "done"
    /\ args.surveyplot
    /\ args.noplots
    /\ plots = <<>>

\* C3: the events of a run always form an initial part of the fixed order
\* construct, setseed, generate, (survey plot), sampling, fit summary, naive
\* estimate, (corner plot), and a completed run has exactly that order.
C3_FixedOrder ==
    /\ events # <<>> => IsPrefix(events, ExpectedOrder(args))
    /\ pc = "done" => events = ExpectedOrder(args)

C3_Witness ==
    /\ pc = "done"
    /\ events = <<"construct", "setseed", "generate", "surveyplot", "sampling",
                  "printfit", "naive", "cornerplot">>

\* The state part of C4: a run that raised has ended at that step with no
\* event of a later step; if a step up to and including sampling failed, no
\* naive estimate is printed and no corner plot is shown.
C4_FailureInvariant ==
    /\ failedAt # "none" => pc = "aborted"
    /\ failedAt # "none" =>
          \A i \in 1..Len(events) : EventRank(events[i]) <= StepRank(failedAt)
    /\ (failedAt # "none" /\ StepRank(failedAt) <= StepRank("sampling")) =>
          /\ naive = NoNaive
          /\ ~InSeq("corner", plots)
          /\ \A i \in 1..Len(NaiveOutputLines) : ~InSeq(NaiveOutputLines[i], stdout)
          /\ ~InSeq("Cannot make naive estimate", stdout)

\* C4 (as a property of behaviours): the failure invariant always holds and,
\* once a step has raised, no later step changes anything.
C4_ErrorsEndTheRun ==
    /\ []C4_FailureInvariant
    /\ [][failedAt # "none" => UNCHANGED vars]_vars

C4_Witness ==
    /\ pc = "aborted"
    /\ failedAt = "sampling"
    /\ survey.numberOfStarsInSurvey = MaxStars

\* C7: the data handed to the sampler are the command-line distances and the
\* survey's arrays, with surveyLimit iff the magnitude-limited model is used;
\* the sampler is asked for meanAbsMag and sigmaAbsMag with 4 chains and the
\* user's iter, thin and seed; the naive estimate gets the same arrays.
C7_SamplerData ==
    /\ \A i \in 1..Len(samplerCalls) :
          LET c == samplerCalls[i]
              d == c.data
          IN /\ d.minDist = args.distMin
             /\ d.maxDist = args.distMax
             /\ d.N = survey.numberOfStarsInSurvey
             /\ d.N = Len(d.obsPlx)
             /\ d.obsPlx = survey.observedParallaxes
             /\ d.errObsPlx = survey.parallaxErrors
             /\ d.obsMag = survey.observedMagnitudes
             /\ d.errObsMag = survey.magnitudeErrors
             /\ ("surveyLimit" \in DOMAIN d) <=> ~args.volumecomplete
             /\ ~args.volumecomplete => d.surveyLimit = survey.apparentMagnitudeLimit
             /\ DOMAIN d \subseteq {"minDist", "maxDist", "N", "obsPlx", "errObsPlx",
                                    "obsMag", "errObsMag", "surveyLimit"}
             /\ c.pars = <<"meanAbsMag", "sigmaAbsMag">>
             /\ c.chains = 4
             /\ c.iter = args.staniter
             /\ c.thin = args.stanthin
             /\ c.seed = args.stanseed
    /\ naive.called =>
          /\ Len(samplerCalls) = 1
          /\ naive.obsplx = samplerCalls[1].data.obsPlx
          /\ naive.errplx = samplerCalls[1].data.errObsPlx
          /\ naive.obsmag = samplerCalls[1].data.obsMag
          /\ naive.errmag = samplerCalls[1].data.errObsMag

C7_Witness ==
    /\ pc = "done"
    /\ ~args.volumecomplete
    /\ naive.called
    /\ samplerCalls[1].data.N = MaxStars
    /\ samplerCalls[1].seed = Some(11)


\* C6: in the magnitude-limited branch the sampler gets an init list of 4
\* entries, each an absMag vector of N finite values in
\* [maxPossibleAbsMag - 4, maxPossibleAbsMag], for every limiting magnitude
\* the command line accepts (computing it never ends the run); in the
\* volume-complete branch no init argument is passed.
C6_FiniteInitialValues ==
    /\ failedAt # "init"
    /\ \A i \in 1..Len(samplerCalls) :
          LET c == samplerCalls[i]
              hi == XAdd(XSub(args.mlim, XTimes(5, Log10(args.distMax))), XFin(5))
          IN IF args.volumecomplete
             THEN "init" \notin DOMAIN c
             ELSE /\ "init" \in DOMAIN c
                  /\ Len(c.init) = 4
                  /\ \A ch \in 1..Len(c.init) :
                        /\ Len(c.init[ch].absMag) = survey.numberOfStarsInSurvey
                        /\ \A j \in 1..Len(c.init[ch].absMag) :
                              LET x == c.init[ch].absMag[j]
                              IN /\ XFinite(x)
                                 /\ XFinite(hi)
                                 /\ hi.v - 4 <= x.v
                                 /\ x.v <= hi.v

\* C10: whatever distMin and distMax the parser accepted, computing the
\* parallax bounds never ends the run before the survey is built.
C10_BoundsNeverAbort == failedAt # "bounds"

\* C5: naive_lum_estimate takes as good exactly the stars with
\* obsplx/errplx >= 1/0.175, prints the naive and corrected estimates iff at
\* least 3 stars are good and otherwise only 'Cannot make naive estimate',
\* reports 0 <= k <= n, and leaves its input arrays unchanged.
C5_NaiveEstimateOutput ==
    naive.called =>
        LET obs == survey.observedParallaxes
            err == survey.parallaxErrors
            n == Len(obs)
            good == {i \in 1..n : fge(fdiv(obs[i], err[i]), fdiv(FOne, lk_relative_error_limit))}
        IN /\ naive.goodplx = good
           /\ (Cardinality(good) >= 3) <=> (naive.printed = NaiveOutputLines)
           /\ Cardinality(good) < 3 =>
                 /\ naive.printed = <<"Cannot make naive estimate">>
                 /\ naive.logArgs = <<>>
                 /\ naive.lkArgs = <<>>
           /\ naive.count # <<>> =>
                 /\ naive.count = <<Cardinality(good), n>>
                 /\ 0 <= naive.count[1]
                 /\ naive.count[1] <= naive.count[2]
           /\ naive.obsplx = obs
           /\ naive.errplx = err
           /\ naive.obsmag = survey.observedMagnitudes
           /\ naive.errmag = survey.magnitudeErrors

\* C8: for stars with errplx > 0, being selected as good implies
\* 0 < errplx/obsplx <= 0.175 and obsplx > 0, so the correction table is
\* never asked for a value outside its domain and never raises.
C8_CorrectionInDomain ==
    (/\ naive.called
     /\ Cardinality(naive.goodplx) >= 3
     /\ \A i \in 1..naive.n : flt(FZero, naive.errplx[i])) =>
        /\ \A i \in naive.goodplx :
              /\ flt(FZero, naive.obsplx[i])
              /\ flt(FZero, naive.lkArgs[i])
              /\ fle(naive.lkArgs[i], lk_relative_error_limit)
        /\ naive.raised = "none"

====
